---- MODULE Spec2Model ----
(***************************************************************************)
(* FaviconAnimator (js/favicon-animator.js): the module's private state,   *)
(* the page objects it reads and writes, and its three operations: init,   *)
(* the mouseenter handler handleButtonHover and the interval callback      *)
(* animateFrame.  JavaScript runs each callback to completion on one       *)
(* event-loop thread, so every callback is one atomic action.              *)
(***************************************************************************)
EXTENDS Integers, Sequences, FiniteSets, TLC

(* ---- configuration constants of the module ---- *)
CANVAS_SIZE == 32
ANIMATION_DURATION == 100
LINE_WIDTH == 8
QUARTER == 25
DEFAULT_CANVAS_WIDTH == 300
DEFAULT_CANVAS_HEIGHT == 150

(* ---- bounds of the model ---- *)
\* number of setInterval calls explored (each returns a fresh id 1, 2, ...)
MaxTimers == 3
\* the tick counter of a run saturates here
TickCap == 103

NULL == 0

VARIABLES
  document,           \* what querySelector / getContext find on the page
  canvas, context, button, favicon,   \* the module's cached references
  animationProgress,  \* let animationProgress
  animationInterval,  \* let animationInterval (NULL or an interval id)
  timers,             \* ids of the repeating timers the browser holds active
  nextTimerId,        \* id the next setInterval call returns
  canvasWidth, canvasHeight,
  contextStyle,       \* strokeStyle and lineWidth of the 2D context
  canvasPath,         \* what the last stroke painted on the surface
  faviconHref,        \* favicon.href
  buttonDisabled,     \* the button carries the disabled attribute
  listeners,          \* mouseenter listeners registered on the button
  loaded,             \* the DOMContentLoaded handler of main.js has run
  initReturn,         \* value returned by the most recent init call
  console,            \* diagnostics emitted by the most recent init call
  lastOp,             \* the callback that ran last
  tickProgress,       \* animationProgress at the start of the last tick
  ticksSinceTrigger,  \* ticks executed since the last trigger (saturating)
  startedClean        \* the last trigger ran while no timer was active

vars == <<document, canvas, context, button, favicon, animationProgress,
          animationInterval, timers, nextTimerId, canvasWidth, canvasHeight,
          contextStyle, canvasPath, faviconHref, buttonDisabled, listeners,
          loaded, initReturn, console, lastOp, tickProgress,
          ticksSinceTrigger, startedClean>>

pageVars == <<canvasWidth, canvasHeight, contextStyle, canvasPath,
              faviconHref, buttonDisabled, listeners>>

animVars == <<animationProgress, animationInterval, timers, nextTimerId>>

histVars == <<tickProgress, ticksSinceTrigger, startedClean>>

(* ---- the page ---- *)
Documents == [canvas : BOOLEAN, button : BOOLEAN, favicon : BOOLEAN,
              ctx2d : BOOLEAN]

querySelector(present) == IF present THEN "elem" ELSE "null"

getContext(doc) == IF doc.ctx2d THEN "ctx2d" ELSE "null"

DefaultStyle == [strokeStyle |-> "black", lineWidth |-> 1]

GradientStyle == [strokeStyle |-> "gradient", lineWidth |-> LINE_WIDTH]

\* the button's event listener list for mouseenter, in order of registration
addEventListenerAppends(ls, h) == Append(ls, h)

\* addEventListener appends the listener unless the list already holds the
\* same callback for the same event type
addEventListener(ls, h) ==
  IF \E i \in DOMAIN ls : ls[i] = h THEN ls ELSE Append(ls, h)

(* ---- JavaScript numbers ---- *)
\* The coordinates are IEEE-754 doubles.  A double is held as a sign and a
\* magnitude counted in units of 2^-60, the magnitude as four limbs of 20
\* bits, least significant first (the last limb is not limited).  Every
\* double of magnitude 0 or in [2^-7, 2^13) is such a number, which covers
\* the values animateFrame computes.  Minus zero is held as zero (-0 === 0).
LIMB == 1048576
MANT_BITS == 53

RECURSIVE Pow2(_)
Pow2(n) == IF n = 0 THEN 1 ELSE 2 * Pow2(n - 1)

RECURSIVE BitLen(_)
BitLen(n) == IF n = 0 THEN 0 ELSE 1 + BitLen(n \div 2)

Abs(n) == IF n < 0 THEN -n ELSE n

Carry(l) ==
  LET t1 == l[2] + (l[1] \div LIMB)
      t2 == l[3] + (t1 \div LIMB)
      t3 == l[4] + (t2 \div LIMB)
  IN <<l[1] % LIMB, t1 % LIMB, t2 % LIMB, t3>>

MagBits(l) ==
  IF l[4] > 0 THEN 60 + BitLen(l[4])
  ELSE IF l[3] > 0 THEN 40 + BitLen(l[3])
  ELSE IF l[2] > 0 THEN 20 + BitLen(l[2])
  ELSE BitLen(l[1])

\* round to 53 significant bits, ties to even; sticky says that the exact
\* value has further nonzero bits below the magnitude's last bit
RoundMag(l, sticky) ==
  LET s == MagBits(l) - MANT_BITS
  IN IF s <= 0 THEN l
     ELSE LET unit == Pow2(s)
              r    == l[1] % unit
              half == unit \div 2
              odd  == IF s = 20 THEN l[2] % 2 = 1
                      ELSE (l[1] \div unit) % 2 = 1
              up   == r > half \/ (r = half /\ (sticky \/ odd))
          IN Carry(<<l[1] - r + (IF up THEN unit ELSE 0), l[2], l[3], l[4]>>)

MagTimes(l, k) == Carry(<<l[1] * k, l[2] * k, l[3] * k, l[4] * k>>)

MagOver(l, d) ==
  LET q4 == l[4] \div d
      r4 == l[4] % d
      q3 == (r4 * LIMB + l[3]) \div d
      r3 == (r4 * LIMB + l[3]) % d
      q2 == (r3 * LIMB + l[2]) \div d
      r2 == (r3 * LIMB + l[2]) % d
      q1 == (r2 * LIMB + l[1]) \div d
      r1 == (r2 * LIMB + l[1]) % d
  IN [quot |-> Carry(<<q1, q2, q3, q4>>), rem |-> r1]

MagZero == <<0, 0, 0, 0>>

\* the double of an integer literal or integer-valued variable
Num(n) == [neg |-> n < 0, mag |-> <<0, 0, 0, Abs(n)>>]

\* a / b for integers a and b > 0: the correctly rounded quotient
NumDiv(a, b) ==
  LET d == MagOver(Num(a).mag, b)
      m == RoundMag(d.quot, d.rem # 0)
  IN [neg |-> m # MagZero /\ a < 0, mag |-> m]

\* x * k for a double x and an integer k: the correctly rounded product
NumMul(x, k) ==
  LET m == RoundMag(MagTimes(x.mag, Abs(k)), FALSE)
  IN [neg |-> m # MagZero /\ (x.neg # (k < 0)), mag |-> m]

NumNegSkipped(x) == x

\* unary minus
NumNeg(x) == [neg |-> x.mag # MagZero /\ ~x.neg, mag |-> x.mag]

(* ---- the frame: the path built by animateFrame for a progress value ---- *)
Size == Num(CANVAS_SIZE)

Origin == Num(0)

\* one moveTo(x0, y0) followed by lineTo(x1, y1)
Seg(x0, y0, x1, y1) == [x0 |-> x0, y0 |-> y0, x1 |-> x1, y1 |-> y1]

TopEdge == Seg(Origin, Origin, Size, Origin)

RightEdge == Seg(Size, Origin, Size, Size)

BottomEdge == Seg(Size, Size, Origin, Size)

StageShifted(p) ==
  IF p < 25 THEN 1
  ELSE IF p >= 25 /\ p < 50 THEN 2
  ELSE IF p >= 50 /\ p < 75 THEN 3
  ELSE IF p >= 75 /\ p <= ANIMATION_DURATION THEN 4
  ELSE 0

\* the branch of the if / else-if chain that is taken (0: none)
Stage(p) ==
  IF p <= 25 THEN 1
  ELSE IF p > 25 /\ p <= 50 THEN 2
  ELSE IF p > 50 /\ p <= 75 THEN 3
  ELSE IF p > 75 /\ p <= ANIMATION_DURATION THEN 4
  ELSE 0

ScaledOffByOne(k) == NumMul(NumDiv(CANVAS_SIZE, QUARTER - 1), k)

\* (CANVAS_SIZE / 25) * k
Scaled(k) == NumMul(NumDiv(CANVAS_SIZE, QUARTER), k)

\* the path animateFrame builds between beginPath and stroke
FramePath(p) ==
  IF Stage(p) = 1 THEN
    <<Seg(Origin, Origin, Scaled(p), Origin)>>
  ELSE IF Stage(p) = 2 THEN
    <<TopEdge, Seg(Size, Origin, Size, Scaled(p - 25))>>
  ELSE IF Stage(p) = 3 THEN
    <<TopEdge, RightEdge, Seg(Size, Size, NumNeg(Scaled(p - 75)), Size)>>
  ELSE IF Stage(p) = 4 THEN
    <<TopEdge, RightEdge, BottomEdge,
      Seg(Origin, Size, Origin, NumNeg(Scaled(p - ANIMATION_DURATION)))>>
  ELSE << >>

\* the paths of the progress values of a run, computed once
FrameTable == [p \in 0..ANIMATION_DURATION |-> FramePath(p)]

Frame(p) ==
  IF p \in 0..ANIMATION_DURATION THEN FrameTable[p] ELSE FramePath(p)

toDataURL(w, h, style, path) ==
  [type |-> "image/png", width |-> w, height |-> h, style |-> style,
   path |-> path]

\* the icon the page's markup links to, before any tick has replaced it
OriginalIcon ==
  [type |-> "image/x-icon", width |-> 0, height |-> 0,
   style |-> DefaultStyle, path |-> << >>]

(* ---- the progress test at the end of animateFrame ---- *)
AnimationCompleteNever(p) == FALSE

AnimationCompleteEarly(p) == p >= ANIMATION_DURATION - 1

AnimationComplete(p) == p = ANIMATION_DURATION

clearIntervalNoop(ts, id) == ts

clearInterval(ts, id) == ts \ {id}

Min(a, b) == IF a < b THEN a ELSE b

(* ---- state after the scripts are parsed, before DOMContentLoaded ---- *)
Init ==
  /\ document \in Documents
  /\ canvas = "null" /\ context = "null" /\ button = "null"
  /\ favicon = "null"
  /\ animationProgress = 0
  /\ animationInterval = NULL
  /\ timers = {}
  /\ nextTimerId = 1
  /\ canvasWidth = DEFAULT_CANVAS_WIDTH
  /\ canvasHeight = DEFAULT_CANVAS_HEIGHT
  /\ contextStyle = DefaultStyle
  /\ canvasPath = << >>
  /\ faviconHref = OriginalIcon
  /\ buttonDisabled \in BOOLEAN
  /\ listeners = << >>
  /\ loaded = FALSE
  /\ initReturn = "none"
  /\ console = << >>
  /\ lastOp = "none"
  /\ tickProgress = -1
  /\ ticksSinceTrigger = 0
  /\ startedClean = FALSE

(* ---- init ---- *)
resetButtonNoop(disabled) == disabled

\* removes the disabled attribute if the button has it
resetButton(disabled) == IF disabled THEN FALSE ELSE disabled

ElementsFoundCanvasOnly(doc) == doc.canvas

\* the safety check of init: all three elements were found
ElementsFound(doc) == doc.canvas /\ doc.button /\ doc.favicon

EntryWarningAlways(initialized) ==
  <<"warn: Favicon animator failed to initialize">>

\* main.js: if (!faviconInitialized) console.warn(...)
EntryWarning(initialized) ==
  IF ~initialized
  THEN <<"warn: Favicon animator failed to initialize">>
  ELSE << >>

\* the body of init; viaMain: the call is the one made by main.js
initCall(viaMain) ==
  LET found == ElementsFound(document)
      ok    == found /\ document.ctx2d
      warn  == IF viaMain THEN EntryWarning(ok) ELSE << >>
  IN
  /\ canvas' = querySelector(document.canvas)
  /\ button' = querySelector(document.button)
  /\ favicon' = querySelector(document.favicon)
  /\ IF ~found THEN
       /\ console' = <<"error: Required DOM elements not found">> \o warn
       /\ initReturn' = "false"
       /\ UNCHANGED <<context, pageVars>>
     ELSE
       \* canvas.width = / canvas.height = : sets the size, clears the
       \* bitmap and resets the context state
       /\ canvasWidth' = CANVAS_SIZE
       /\ canvasHeight' = CANVAS_SIZE
       /\ canvasPath' = << >>
       /\ context' = getContext(document)
       /\ IF ~document.ctx2d THEN
            /\ console' = <<"error: Canvas 2D context not supported">> \o warn
            /\ initReturn' = "false"
            /\ contextStyle' = DefaultStyle
            /\ UNCHANGED <<faviconHref, buttonDisabled, listeners>>
          ELSE
            /\ contextStyle' = GradientStyle
            /\ listeners' = addEventListener(listeners, "handleButtonHover")
            /\ buttonDisabled' = resetButton(buttonDisabled)
            /\ console' =
                 <<"log: FaviconAnimator initialized successfully">> \o warn
            /\ initReturn' = "true"
            /\ UNCHANGED faviconHref
  /\ lastOp' = "init"
  /\ UNCHANGED <<document, histVars>>

\* main.js: document.addEventListener("DOMContentLoaded", ...)
DOMContentLoaded ==
  /\ ~loaded
  /\ loaded' = TRUE
  /\ initCall(TRUE)
  /\ UNCHANGED animVars

\* FaviconAnimator.init() called again on the loaded page
initStopsRun ==
  /\ loaded
  /\ UNCHANGED loaded
  /\ initCall(FALSE)
  /\ animationProgress' = 0
  /\ animationInterval' = NULL
  /\ timers' = timers \ {animationInterval}
  /\ UNCHANGED nextTimerId

init ==
  /\ loaded
  /\ UNCHANGED loaded
  /\ initCall(FALSE)
  /\ UNCHANGED animVars

(* ---- the trigger handler ---- *)
handleButtonHoverNoReset ==
  /\ animationProgress' = animationProgress
  /\ animationInterval' = nextTimerId
  /\ timers' = timers \cup {nextTimerId}
  /\ nextTimerId' = nextTimerId + 1
  /\ buttonDisabled' = TRUE
  /\ lastOp' = "trigger"
  /\ ticksSinceTrigger' = 0
  /\ startedClean' = (timers = {})
  /\ UNCHANGED <<document, canvas, context, button, favicon, canvasWidth,
                 canvasHeight, contextStyle, canvasPath, faviconHref,
                 listeners, loaded, initReturn, console, tickProgress>>

handleButtonHoverCancels ==
  /\ animationProgress' = 0
  /\ animationInterval' = nextTimerId
  /\ timers' = (timers \ {animationInterval}) \cup {nextTimerId}
  /\ nextTimerId' = nextTimerId + 1
  /\ buttonDisabled' = TRUE
  /\ lastOp' = "trigger"
  /\ ticksSinceTrigger' = 0
  /\ startedClean' = (timers = {})
  /\ UNCHANGED <<document, canvas, context, button, favicon, canvasWidth,
                 canvasHeight, contextStyle, canvasPath, faviconHref,
                 listeners, loaded, initReturn, console, tickProgress>>

handleButtonHoverDraws ==
  /\ animationProgress' = 0
  /\ animationInterval' = nextTimerId
  /\ timers' = timers \cup {nextTimerId}
  /\ nextTimerId' = nextTimerId + 1
  /\ buttonDisabled' = TRUE
  /\ canvasPath' = Frame(0)
  /\ faviconHref' = toDataURL(canvasWidth, canvasHeight, contextStyle,
                            Frame(0))
  /\ lastOp' = "trigger"
  /\ ticksSinceTrigger' = 0
  /\ startedClean' = (timers = {})
  /\ UNCHANGED <<document, canvas, context, button, favicon, canvasWidth,
                 canvasHeight, contextStyle, listeners, loaded, initReturn,
                 console, tickProgress>>

handleButtonHover ==
  /\ animationProgress' = 0
  /\ animationInterval' = nextTimerId
  /\ timers' = timers \cup {nextTimerId}
  /\ nextTimerId' = nextTimerId + 1
  /\ buttonDisabled' = TRUE
  /\ lastOp' = "trigger"
  /\ ticksSinceTrigger' = 0
  /\ startedClean' = (timers = {})
  /\ UNCHANGED <<document, canvas, context, button, favicon, canvasWidth,
                 canvasHeight, contextStyle, canvasPath, faviconHref,
                 listeners, loaded, initReturn, console, tickProgress>>

\* the pointer enters the button; a disabled button receives no pointer
\* events from the user.  The event calls the listeners of the list; init
\* registers the one handler only.
mouseenter ==
  /\ listeners = <<"handleButtonHover">>
  /\ ~buttonDisabled
  /\ nextTimerId <= MaxTimers
  /\ handleButtonHover

\* a mouseenter event dispatched by script (button.dispatchEvent), which the
\* disabled attribute does not block
dispatchMouseenter ==
  /\ listeners = <<"handleButtonHover">>
  /\ nextTimerId <= MaxTimers
  /\ handleButtonHover

(* ---- the frame-draw step ---- *)
clearRectNoop(surface) == surface

\* context.clearRect(0, 0, CANVAS_SIZE, CANVAS_SIZE): nothing stays drawn
clearRect(surface) == << >>

\* context.stroke(): the segments of the path are drawn over the surface
stroke(surface, path) == surface \o path

animateFrameIncrementFirst ==
  LET done == AnimationComplete(animationProgress)
      next == IF done THEN animationProgress ELSE animationProgress + 1
      path == Frame(next)
  IN
  /\ canvasPath' = stroke(clearRect(canvasPath), path)
  /\ faviconHref' = toDataURL(canvasWidth, canvasHeight, contextStyle,
                            stroke(clearRect(canvasPath), path))
  /\ animationProgress' = next
  /\ IF done THEN
       /\ timers' = clearInterval(timers, animationInterval)
       /\ animationInterval' = NULL
     ELSE
       UNCHANGED <<timers, animationInterval>>
  /\ lastOp' = "tick"
  /\ tickProgress' = animationProgress
  /\ ticksSinceTrigger' = Min(ticksSinceTrigger + 1, TickCap)
  /\ UNCHANGED <<document, canvas, context, button, favicon, nextTimerId,
                 canvasWidth, canvasHeight, contextStyle, buttonDisabled,
                 listeners, loaded, initReturn, console, startedClean>>

animateFrameReenables ==
  LET path == Frame(animationProgress)
  IN
  /\ canvasPath' = stroke(clearRect(canvasPath), path)
  /\ faviconHref' = toDataURL(canvasWidth, canvasHeight, contextStyle,
                            stroke(clearRect(canvasPath), path))
  /\ IF AnimationComplete(animationProgress) THEN
       /\ timers' = clearInterval(timers, animationInterval)
       /\ animationInterval' = NULL
       /\ buttonDisabled' = FALSE
       /\ UNCHANGED animationProgress
     ELSE
       /\ animationProgress' = animationProgress + 1
       /\ UNCHANGED <<timers, animationInterval, buttonDisabled>>
  /\ lastOp' = "tick"
  /\ tickProgress' = animationProgress
  /\ ticksSinceTrigger' = Min(ticksSinceTrigger + 1, TickCap)
  /\ UNCHANGED <<document, canvas, context, button, favicon, nextTimerId,
                 canvasWidth, canvasHeight, contextStyle,
                 listeners, loaded, initReturn, console, startedClean>>

animateFrame ==
  LET path == Frame(animationProgress)
  IN
  /\ canvasPath' = stroke(clearRect(canvasPath), path)
  /\ faviconHref' = toDataURL(canvasWidth, canvasHeight, contextStyle,
                            stroke(clearRect(canvasPath), path))
  /\ IF AnimationComplete(animationProgress) THEN
       /\ timers' = clearInterval(timers, animationInterval)
       /\ animationInterval' = NULL
       /\ UNCHANGED animationProgress
     ELSE
       /\ animationProgress' = animationProgress + 1
       /\ UNCHANGED <<timers, animationInterval>>
  /\ lastOp' = "tick"
  /\ tickProgress' = animationProgress
  /\ ticksSinceTrigger' = Min(ticksSinceTrigger + 1, TickCap)
  /\ UNCHANGED <<document, canvas, context, button, favicon, nextTimerId,
                 canvasWidth, canvasHeight, contextStyle, buttonDisabled,
                 listeners, loaded, initReturn, console, startedClean>>

\* one of the active repeating timers fires
Tick == \E t \in timers : animateFrame

Next ==
  \/ DOMContentLoaded
  \/ init
  \/ mouseenter
  \/ dispatchMouseenter
  \/ Tick

Spec == Init /\ [][Next]_vars

\* only the user's pointer triggers the handler
NextUser ==
  \/ DOMContentLoaded
  \/ init
  \/ mouseenter
  \/ Tick

SpecUser == Init /\ [][NextUser]_vars

\* the browser keeps firing an active interval timer
LiveSpec == Spec /\ WF_vars(Tick)

TypeOK ==
  /\ document \in Documents
  /\ animationProgress \in Int
  /\ animationInterval \in 0..MaxTimers
  /\ timers \subseteq 1..MaxTimers
  /\ nextTimerId \in 1..(MaxTimers + 1)
  /\ buttonDisabled \in BOOLEAN
  /\ listeners \in Seq({"handleButtonHover"})
  /\ lastOp \in {"none", "init", "trigger", "tick"}
  /\ ticksSinceTrigger \in 0..TickCap

(* ======================= properties ======================= *)

AllFound == document.canvas /\ document.button /\ document.favicon

\* a run that was started while no timer was active has stopped its timer
RunFinished == startedClean /\ nextTimerId > 1 /\ timers = {}

\* C1: in every reachable state at most one repeating timer is active.
C1_AtMostOneTimer == Cardinality(timers) <= 1

\* C2: once a tick has been executed with progress = 100 the timer is
\* stopped and the handle cleared: no timer is active, so no tick is pending.
C2_StoppedAfterFinalTick ==
  (lastOp = "tick" /\ tickProgress = 100) =>
    (timers = {} /\ animationInterval = NULL)

\* C3: termination. If the trigger handler ran while no timer was active
\* and the trigger never fires again (the k-th trigger stays the last one),
\* then with timer ticks delivered fairly the system eventually has
\* progress = 100, a null handle and no active timer, and stays there.
C3_Termination ==
  \A k \in 1..MaxTimers :
    (<>[](nextTimerId = k + 1 /\ startedClean)) =>
      <>[](animationProgress = 100 /\ animationInterval = NULL
           /\ timers = {})

C3_Witness ==
  /\ RunFinished
  /\ animationProgress = 100
  /\ animationInterval = NULL
  /\ lastOp = "tick"

\* C4: progress is an integer in [0, 100] in every reachable state, also
\* when more than one timer delivers ticks after a re-trigger.
C4_ProgressInRange == animationProgress \in 0..100

C4_Witness ==
  /\ Cardinality(timers) >= 2
  /\ lastOp = "tick"
  /\ tickProgress = 100
  /\ animationProgress = 100

\* C5: a tick executed with progress < 100 increases progress by exactly 1
\* and a tick executed with progress = 100 leaves it unchanged.
C5_TickStep ==
  [][lastOp' = "tick" =>
       IF animationProgress < 100
       THEN animationProgress' = animationProgress + 1
       ELSE animationProgress' = animationProgress]_vars

C5_Witness ==
  /\ lastOp = "tick"
  /\ tickProgress = 100
  /\ animationProgress = 100
  /\ ticksSinceTrigger = 101

\* C6: the trigger handler leaves progress = 0 whatever the state it runs
\* in, and the frame drawn by the next tick is the frame for progress 0.
C6_TriggerResets ==
  [][/\ lastOp' = "trigger" => animationProgress' = 0
     /\ (lastOp = "trigger" /\ lastOp' = "tick") =>
          /\ tickProgress' = 0
          /\ canvasPath' = <<Seg(Origin, Origin, Origin, Origin)>>]_vars

\* a re-trigger of a run in flight whose progress had left 0
C6_Witness ==
  /\ lastOp = "trigger"
  /\ ~startedClean
  /\ tickProgress > 0
  /\ animationProgress = 0

\* C7: whenever a timer is active the trigger element carries the disabled
\* attribute.
C7_DisabledWhileRunning == timers # {} => buttonDisabled

\* C8: the stored timer handle is non-null if and only if some repeating
\* timer is active.
C8_HandleIffActive == (animationInterval # NULL) <=> (timers # {})

\* C9 (as stated): an uninterrupted run takes exactly 100 ticks, counted
\* from the trigger up to and including the tick that stops the timer.
C9_Run100Ticks == RunFinished => ticksSinceTrigger = 100

\* C9 (amended): an uninterrupted run takes exactly 101 ticks, one for each
\* progress value 0..100, the last of which stops the timer.
C9_Run101Ticks == RunFinished => ticksSinceTrigger = 101

C9_Witness ==
  /\ RunFinished
  /\ lastOp = "tick"
  /\ tickProgress = 100
  /\ nextTimerId = 2

\* C10: when one of the three required elements is missing, a call of init
\* returns false and attaches no listener, leaves the surface dimensions
\* and the disabled attribute alone and keeps progress and the timer handle.
C10_InitMissingElement ==
  [][(lastOp' = "init" /\ ~AllFound) =>
       /\ initReturn' = "false"
       /\ listeners' = << >>
       /\ UNCHANGED <<listeners, canvasWidth, canvasHeight, canvasPath,
                      contextStyle, buttonDisabled, faviconHref,
                      animationProgress, animationInterval, timers>>]_vars

\* init has failed on a page that has the surface and a disabled trigger
\* element but no favicon link
C10_Witness ==
  /\ lastOp = "init"
  /\ document.canvas /\ document.button /\ ~document.favicon
  /\ initReturn = "false"
  /\ buttonDisabled
  /\ canvasWidth = DEFAULT_CANVAS_WIDTH
  /\ listeners = << >>

\* C11 (as stated): with the three elements present but no 2D drawing
\* capability, init returns false and changes nothing on the page: the
\* surface's pixel dimensions, the listeners and the disabled attribute.
C11_InitNo2DContext ==
  [][(lastOp' = "init" /\ AllFound /\ ~document.ctx2d) =>
       /\ initReturn' = "false"
       /\ UNCHANGED <<canvasWidth, canvasHeight, listeners,
                      buttonDisabled>>]_vars

\* C12: with the three elements and the 2D capability present, init returns
\* true and leaves the surface CANVAS_SIZE x CANVAS_SIZE (32 x 32), the
\* pointer-enter listener attached and the trigger element not disabled.
C12_InitSucceeds ==
  [][(lastOp' = "init" /\ AllFound /\ document.ctx2d) =>
       /\ initReturn' = "true"
       /\ canvasWidth' = CANVAS_SIZE /\ canvasHeight' = CANVAS_SIZE
       /\ CANVAS_SIZE = 32
       /\ listeners' = <<"handleButtonHover">>
       /\ ~buttonDisabled']_vars

\* init has succeeded during a run, which had disabled the trigger element
C12_Witness ==
  /\ lastOp = "init"
  /\ initReturn = "true"
  /\ timers # {}
  /\ ~buttonDisabled
  /\ canvasWidth = 32 /\ canvasHeight = 32

\* number of full-length edges the claim gives for a progress value
FullEdgeCount(p) ==
  IF p <= 25 THEN 0 ELSE IF p <= 50 THEN 1 ELSE IF p <= 75 THEN 2 ELSE 3

\* the segment lies on edge i of the square and starts at the corner where
\* that edge begins (1: top, 2: right, 3: bottom, 4: left)
OnEdge(g, i) ==
  IF i = 1 THEN g.x0 = Num(0) /\ g.y0 = Num(0) /\ g.y1 = Num(0)
  ELSE IF i = 2 THEN g.x0 = Num(32) /\ g.y0 = Num(0) /\ g.x1 = Num(32)
  ELSE IF i = 3 THEN g.x0 = Num(32) /\ g.y0 = Num(32) /\ g.y1 = Num(32)
  ELSE g.x0 = Num(0) /\ g.y0 = Num(32) /\ g.x1 = Num(0)

\* the segment is the whole of edge i
IsFullEdge(g, i) ==
  /\ OnEdge(g, i)
  /\ IF i = 1 THEN g.x1 = Num(32)
     ELSE IF i = 2 THEN g.y1 = Num(32)
     ELSE IF i = 3 THEN g.x1 = Num(0)
     ELSE g.y1 = Num(0)

\* C13: for every progress in 0..100 the frame is k full-length edges (top,
\* right, bottom in that order) followed by exactly one partially-drawn
\* edge, with k = 0, 1, 2, 3 for the quartiles ..25, ..50, ..75, ..100.
C13_FrameShape ==
  lastOp = "tick" =>
    LET k == FullEdgeCount(tickProgress)
    IN /\ tickProgress \in 0..100
       /\ Len(canvasPath) = k + 1
       /\ \A i \in 1..k : IsFullEdge(canvasPath[i], i)
       /\ OnEdge(canvasPath[k + 1], k + 1)

C13_Witness ==
  /\ lastOp = "tick"
  /\ tickProgress = 76
  /\ Len(canvasPath) = 4
  /\ canvasPath[3].x1 = Num(0)

(* ---- comparing numbers in the properties ---- *)
MagLeq(a, b) ==
  IF a[4] # b[4] THEN a[4] < b[4]
  ELSE IF a[3] # b[3] THEN a[3] < b[3]
  ELSE IF a[2] # b[2] THEN a[2] < b[2]
  ELSE a[1] <= b[1]

NumLeq(a, b) ==
  IF a.neg # b.neg THEN a.neg
  ELSE IF a.neg THEN MagLeq(b.mag, a.mag)
  ELSE MagLeq(a.mag, b.mag)

\* the exact sum of two non-negative numbers, as a magnitude
MagPlus(a, b) ==
  Carry(<<a.mag[1] + b.mag[1], a.mag[2] + b.mag[2], a.mag[3] + b.mag[3],
          a.mag[4] + b.mag[4]>>)

InUnit(x) == NumLeq(Num(0), x) /\ NumLeq(x, Num(32))

ZeroLength(g) == g.x0 = g.x1 /\ g.y0 = g.y1

\* C14: for every progress in 0..25 the top segment starts at (0,0) and has
\* the length L with 25 * L = size * progress, that is the number
\* size * progress / 25; so 0 <= L <= size, L = 0 at progress 0 and
\* L = 15.36 at size 32, progress 12.
C14_TopLength ==
  (lastOp = "tick" /\ tickProgress \in 0..25) =>
    LET g == canvasPath[1]
        L == g.x1
    IN /\ g.x0 = Num(0) /\ g.y0 = Num(0) /\ g.y1 = Num(0)
       /\ L = NumDiv(32 * tickProgress, 25)
       /\ InUnit(L)
       /\ tickProgress = 0 => L = Num(0)
       /\ tickProgress = 12 => L = NumDiv(1536, 100)

C14_Witness ==
  /\ lastOp = "tick"
  /\ tickProgress = 12
  /\ canvasPath = <<Seg(Num(0), Num(0), NumDiv(1536, 100), Num(0))>>

\* C15: for every progress with 25 < progress <= 50 the top edge is drawn
\* at full length and the right segment starts at (size,0) and runs down
\* by the length L with 25 * L = size * (progress - 25), the number
\* size * (progress - 25) / 25 (15.36 at size 32, progress 37).
C15_RightLength ==
  (lastOp = "tick" /\ tickProgress > 25 /\ tickProgress <= 50) =>
    LET g == canvasPath[2]
        L == g.y1
    IN /\ IsFullEdge(canvasPath[1], 1)
       /\ g.x0 = Num(32) /\ g.y0 = Num(0) /\ g.x1 = Num(32)
       /\ L = NumDiv(32 * (tickProgress - 25), 25)
       /\ InUnit(L)
       /\ tickProgress = 37 => L = NumDiv(1536, 100)

C15_Witness ==
  /\ lastOp = "tick"
  /\ tickProgress = 37
  /\ Len(canvasPath) = 2
  /\ canvasPath[2] = Seg(Num(32), Num(0), Num(32), NumDiv(1536, 100))

\* C16 (as stated): for 50 < progress <= 75 the top and right edges are
\* full and the bottom segment starts at (size,size) with its far end
\* (size/25) * (75 - progress) to the left of the right edge.
C16_BottomFromRightEdge ==
  (lastOp = "tick" /\ tickProgress > 50 /\ tickProgress <= 75) =>
    LET g == canvasPath[3]
    IN /\ IsFullEdge(canvasPath[1], 1) /\ IsFullEdge(canvasPath[2], 2)
       /\ g.x0 = Num(32) /\ g.y0 = Num(32) /\ g.y1 = Num(32)
       /\ MagPlus(g.x1, NumDiv(32 * (75 - tickProgress), 25)) = Num(32).mag

\* C16 (amended): for 50 < progress <= 75 the top and right edges are full
\* and the bottom segment starts at (size,size) with its far end at
\* x = (size/25) * (75 - progress), that far to the right of the left edge.
C16_BottomFarEnd ==
  (lastOp = "tick" /\ tickProgress > 50 /\ tickProgress <= 75) =>
    LET g == canvasPath[3]
    IN /\ IsFullEdge(canvasPath[1], 1) /\ IsFullEdge(canvasPath[2], 2)
       /\ g.x0 = Num(32) /\ g.y0 = Num(32) /\ g.y1 = Num(32)
       /\ g.x1 = NumDiv(32 * (75 - tickProgress), 25)
       /\ InUnit(g.x1)

C16_Witness ==
  /\ lastOp = "tick"
  /\ tickProgress = 51
  /\ Len(canvasPath) = 3
  /\ canvasPath[3] = Seg(Num(32), Num(32), NumDiv(3072, 100), Num(32))

\* C17 (as stated): for 75 < progress <= 100 the top, right and bottom
\* edges are full and the left segment starts at (0,size) with its far end
\* (size/25) * (100 - progress) above the bottom edge.
C17_LeftFromBottomEdge ==
  (lastOp = "tick" /\ tickProgress > 75 /\ tickProgress <= 100) =>
    LET g == canvasPath[4]
    IN /\ \A i \in 1..3 : IsFullEdge(canvasPath[i], i)
       /\ g.x0 = Num(0) /\ g.y0 = Num(32) /\ g.x1 = Num(0)
       /\ MagPlus(g.y1, NumDiv(32 * (100 - tickProgress), 25)) = Num(32).mag

\* C17 (amended): for 75 < progress <= 100 the top, right and bottom edges
\* are full and the left segment starts at (0,size) with its far end at
\* y = (size/25) * (100 - progress), that far below the top edge.
C17_LeftFarEnd ==
  (lastOp = "tick" /\ tickProgress > 75 /\ tickProgress <= 100) =>
    LET g == canvasPath[4]
    IN /\ \A i \in 1..3 : IsFullEdge(canvasPath[i], i)
       /\ g.x0 = Num(0) /\ g.y0 = Num(32) /\ g.x1 = Num(0)
       /\ g.y1 = NumDiv(32 * (100 - tickProgress), 25)
       /\ InUnit(g.y1)

C17_Witness ==
  /\ lastOp = "tick"
  /\ tickProgress = 99
  /\ Len(canvasPath) = 4
  /\ canvasPath[4] = Seg(Num(0), Num(32), Num(0), NumDiv(128, 100))

\* C18: at a quartile boundary progress = 25k, k in {1,2,3}, the frame
\* shows the first k edges (top, right, bottom) at exactly full length and
\* nothing of edge k+1.
C18_QuartileBoundary ==
  (lastOp = "tick" /\ tickProgress \in {25, 50, 75}) =>
    LET k == tickProgress \div 25
    IN /\ Len(canvasPath) >= k
       /\ \A i \in 1..k : IsFullEdge(canvasPath[i], i)
       /\ \A i \in (k + 1)..Len(canvasPath) : ZeroLength(canvasPath[i])

C18_Witness ==
  /\ lastOp = "tick"
  /\ tickProgress = 75
  /\ canvasPath = <<TopEdge, RightEdge, BottomEdge>>

\* the last segment of the path, the partially drawn edge
Partial == canvasPath[Len(canvasPath)]

\* C19 (as stated): on the tick after a quartile boundary (progress 26, 51,
\* 76) the next quartile's partial segment has length 0.
C19_StartsAtZero ==
  (lastOp = "tick" /\ tickProgress \in {26, 51, 76}) => ZeroLength(Partial)

\* C19 (amended): on the tick after a quartile boundary (progress 26, 51,
\* 76) the next quartile's partial segment has length size/25: its far end
\* is one step of size/25 away from the corner it starts at.
C19_StartsAtOneStep ==
  /\ (lastOp = "tick" /\ tickProgress = 26) =>
       Partial = Seg(Num(32), Num(0), Num(32), NumDiv(32, 25))
  /\ (lastOp = "tick" /\ tickProgress = 51) =>
       Partial = Seg(Num(32), Num(32), NumDiv(32 * 24, 25), Num(32))
  /\ (lastOp = "tick" /\ tickProgress = 76) =>
       Partial = Seg(Num(0), Num(32), Num(0), NumDiv(32 * 24, 25))

C19_Witness ==
  /\ lastOp = "tick"
  /\ tickProgress = 26
  /\ Len(canvasPath) = 2
  /\ ~ZeroLength(canvasPath[2])

\* the closed square: four full edges, the left one ending at (0,0)
IsSquare(path) ==
  /\ Len(path) = 4
  /\ \A i \in 1..4 : IsFullEdge(path[i], i)

\* C20: at progress = 100 the frame is all four edges at full length, and
\* whenever the timer has been stopped by reaching progress = 100 the
\* favicon target is that frame.
C20_FinalFrame ==
  /\ (lastOp = "tick" /\ tickProgress = 100) => IsSquare(canvasPath)
  /\ (nextTimerId > 1 /\ animationInterval = NULL) =>
       /\ animationProgress = 100
       /\ faviconHref.type = "image/png"
       /\ faviconHref.width = 32 /\ faviconHref.height = 32
       /\ faviconHref.style.strokeStyle = "gradient"
       /\ IsSquare(faviconHref.path)

C20_Witness ==
  /\ RunFinished
  /\ lastOp = "init"
  /\ IsSquare(faviconHref.path)
  /\ canvasPath = << >>

\* the frame for a progress value as sections 4.1 and 8 of the specification
\* give it (with the far ends of C16 and C17 as amended)
IdealPath(p) ==
  LET k == FullEdgeCount(p)
      T == Seg(Num(0), Num(0), Num(32), Num(0))
      R == Seg(Num(32), Num(0), Num(32), Num(32))
      B == Seg(Num(32), Num(32), Num(0), Num(32))
  IN IF k = 0 THEN
       <<Seg(Num(0), Num(0), NumDiv(32 * p, 25), Num(0))>>
     ELSE IF k = 1 THEN
       <<T, Seg(Num(32), Num(0), Num(32), NumDiv(32 * (p - 25), 25))>>
     ELSE IF k = 2 THEN
       <<T, R, Seg(Num(32), Num(32), NumDiv(32 * (75 - p), 25), Num(32))>>
     ELSE
       <<T, R, B, Seg(Num(0), Num(32), Num(0), NumDiv(32 * (100 - p), 25))>>

IdealTable == [p \in 0..100 |-> IdealPath(p)]

IdealIcon(p) ==
  [type |-> "image/png", width |-> 32, height |-> 32,
   style |-> [strokeStyle |-> "gradient", lineWidth |-> 8],
   path |-> IdealTable[p]]

\* C21: a tick clears, builds the path for the current progress, strokes and
\* publishes before it tests progress = 100: every tick, the stopping one
\* included, republishes the favicon, and the frame it publishes is the one
\* for the progress value held when the tick began.
C21_TickPublishesCurrent ==
  [][lastOp' = "tick" =>
       /\ animationProgress \in 0..100
       /\ tickProgress' = animationProgress
       /\ canvasPath' = IdealTable[animationProgress]
       /\ faviconHref' = IdealIcon(animationProgress)
       /\ (animationProgress = 100) = (animationInterval' = NULL)
       /\ animationProgress # 100 =>
            /\ animationProgress' = animationProgress + 1
            /\ UNCHANGED <<timers, animationInterval>>]_vars

\* the stopping tick has republished the favicon
C21_Witness ==
  /\ lastOp = "tick"
  /\ tickProgress = 100
  /\ animationInterval = NULL
  /\ faviconHref = IdealIcon(100)

\* C22: the frame-draw step never changes the disabled attribute; the
\* trigger sets it and from then on only a successful init removes it, so
\* the tick that stops the timer leaves the element disabled.
C22_TickKeepsDisabled ==
  [][/\ lastOp' = "tick" => buttonDisabled' = buttonDisabled
     /\ lastOp' = "trigger" => buttonDisabled'
     /\ (buttonDisabled /\ ~buttonDisabled') =>
          (lastOp' = "init" /\ initReturn' = "true")]_vars

\* a run has completed and the element is still disabled
C22_Witness ==
  /\ RunFinished
  /\ lastOp = "tick"
  /\ tickProgress = 100
  /\ buttonDisabled

\* C23: progress returns to 0 only through the trigger handler: no tick
\* decreases it, and once at 100 it stays at 100 until a trigger fires.
C23_ResetOnlyByTrigger ==
  [][/\ lastOp' = "tick" => animationProgress' >= animationProgress
     /\ animationProgress' < animationProgress =>
          (lastOp' = "trigger" /\ animationProgress' = 0)
     /\ (animationProgress = 100 /\ animationProgress' # 100) =>
          (lastOp' = "trigger" /\ animationProgress' = 0)]_vars

\* a trigger has brought progress back from 100 to 0
C23_Witness ==
  /\ lastOp = "trigger"
  /\ tickProgress = 100
  /\ animationProgress = 0

\* C24: the animation state is changed only by the tick and the trigger
\* handler; every call of init, also during a run, leaves progress, the
\* timer handle and the active timers as they are.
C24_InitKeepsAnimation ==
  [][/\ lastOp' = "init" =>
          UNCHANGED <<animationProgress, animationInterval, timers,
                      nextTimerId>>
     /\ (animationProgress' # animationProgress
         \/ animationInterval' # animationInterval) =>
          lastOp' \in {"tick", "trigger"}]_vars

\* init has been called in the middle of a run
C24_Witness ==
  /\ lastOp = "init"
  /\ timers # {}
  /\ animationInterval # NULL
  /\ animationProgress \in 1..99

EmittedIn(c, m) == \E i \in DOMAIN c : c[i] = m

ErrorIn(c) ==
  \/ EmittedIn(c, "error: Required DOM elements not found")
  \/ EmittedIn(c, "error: Canvas 2D context not supported")

\* C25: init reports its outcome as a return value and a diagnostic: the
\* success message iff it returns true, an error message iff it returns
\* false; the entry point warns iff its init call returned false.
C25_Diagnostics ==
  /\ [](initReturn # "none" =>
          /\ initReturn \in {"true", "false"}
          /\ EmittedIn(console,
                       "log: FaviconAnimator initialized successfully")
               <=> initReturn = "true"
          /\ ErrorIn(console) <=> initReturn = "false")
  /\ [][(~loaded /\ loaded') =>
          (EmittedIn(console', "warn: Favicon animator failed to initialize")
             <=> initReturn' = "false")]_vars

\* the entry point has warned after init failed for want of a 2D context
C25_Witness ==
  /\ loaded
  /\ AllFound /\ ~document.ctx2d
  /\ initReturn = "false"
  /\ console = <<"error: Canvas 2D context not supported",
                 "warn: Favicon animator failed to initialize">>

\* C26: the trigger handler does not cancel a timer that is running: it
\* adds a timer and overwrites the handle, and a timer whose handle has
\* been overwritten is never cancelled in any later step; only the timer
\* the handle names is cleared, by a tick.
C26_NoCancelOnTrigger ==
  [][/\ lastOp' = "trigger" =>
          /\ timers \subseteq timers'
          /\ Cardinality(timers') = Cardinality(timers) + 1
          /\ animationInterval' \in timers' \ timers
     /\ \A t \in timers :
          /\ t # animationInterval =>
               (t \in timers' /\ animationInterval' # t)
          /\ t \notin timers' =>
               (t = animationInterval /\ lastOp' = "tick")]_vars

\* a timer left over from an earlier trigger has outlived the final tick
C26_Witness ==
  /\ lastOp = "tick"
  /\ tickProgress = 100
  /\ animationInterval = NULL
  /\ Cardinality(timers) >= 1
  /\ ~startedClean

\* C27: in an uninterrupted run the j-th tick draws the frame for
\* n = j - 1, for n = 0, 1, ..., 100 in this order without gap or repeat,
\* the favicon shows that frame, and the tick for n = 100 is the one that
\* clears the interval.
C27_RunDrawsEachFrameOnce ==
  startedClean =>
    /\ ticksSinceTrigger \in 0..101
    /\ ticksSinceTrigger = 0 => (animationProgress = 0 /\ timers # {})
    /\ ticksSinceTrigger >= 1 =>
         /\ tickProgress = ticksSinceTrigger - 1
         /\ faviconHref = IdealIcon(tickProgress)
         /\ (timers = {}) = (tickProgress = 100)
         /\ animationProgress =
              (IF tickProgress = 100 THEN 100 ELSE tickProgress + 1)

C27_Witness ==
  /\ startedClean
  /\ ticksSinceTrigger = 101
  /\ tickProgress = 100
  /\ timers = {}
  /\ faviconHref = IdealIcon(100)

\* the branch the claim gives for a progress value
StageOfClaim(p) ==
  IF p \in 0..25 THEN 1
  ELSE IF p \in 26..50 THEN 2
  ELSE IF p \in 51..75 THEN 3
  ELSE IF p \in 76..100 THEN 4
  ELSE 0

\* C28: the four stages partition 0..100: every tick takes exactly the
\* branch TOP (0..25), RIGHT (26..50), BOTTOM (51..75) or LEFT (76..100)
\* of its progress (branch i builds i segments, the last on edge i), so no
\* frame is empty, and the stage never falls while progress rises.
C28_StagesPartition ==
  /\ [](lastOp = "tick" =>
          /\ StageOfClaim(tickProgress) \in 1..4
          /\ Len(canvasPath) = StageOfClaim(tickProgress)
          /\ OnEdge(Partial, StageOfClaim(tickProgress)))
  /\ [][(lastOp = "tick" /\ lastOp' = "tick"
         /\ tickProgress' >= tickProgress) =>
          Len(canvasPath') >= Len(canvasPath)]_vars

C28_Witness ==
  /\ lastOp = "tick"
  /\ tickProgress = 51
  /\ Len(canvasPath) = 3
  /\ OnEdge(canvasPath[3], 3)

\* C29: the terminal state is stable under extra ticks: a tick in a state
\* with progress = 100, also one of a leftover timer when the handle is
\* already null, leaves progress = 100, publishes the closed square again
\* and starts no timer.
C29_TerminalStable ==
  [][(animationProgress = 100 /\ lastOp' = "tick") =>
       /\ animationProgress' = 100
       /\ canvasPath' = IdealTable[100]
       /\ IsSquare(canvasPath')
       /\ faviconHref' = IdealIcon(100)
       /\ timers' \subseteq timers
       /\ nextTimerId' = nextTimerId
       /\ animationInterval' = NULL]_vars

\* a leftover timer has ticked after the tick that stopped the run
C29_Witness ==
  /\ lastOp = "tick"
  /\ tickProgress = 100
  /\ animationProgress = 100
  /\ animationInterval = NULL
  /\ timers # {}
  /\ ticksSinceTrigger >= 102

\* the far ends (size/25) * j of a partial segment, j = 0..25
FarEnds == [j \in 0..25 |-> NumDiv(32 * j, 25)]

\* the coordinate of the partial segment's far end that moves
FarEnd(path) ==
  IF Len(path) \in {1, 3} THEN path[Len(path)].x1 ELSE path[Len(path)].y1

\* 25 times the total length of the segments of a path, the coordinates
\* being read as the numbers n/25 they stand for (-1: not such a path).
\* The top and right segments grow away from 0, the bottom and left ones
\* towards 0.
Total25(path) ==
  LET n == Len(path)
  IN IF /\ n \in 1..4
        /\ \A i \in 1..(n - 1) : IsFullEdge(path[i], i)
        /\ OnEdge(path[n], n)
        /\ \E j \in 0..25 : FarEnd(path) = FarEnds[j]
     THEN LET j == CHOOSE j \in 0..25 : FarEnd(path) = FarEnds[j]
          IN 800 * (n - 1) + (IF n <= 2 THEN 32 * j ELSE 800 - 32 * j)
     ELSE -1

\* C30: for every progress p the total length T of the segments drawn
\* satisfies 25 * T = size * p: each frame of a run adds size/25 of outline
\* to the one before, none shrinks, and the frame at 100 has length 4 * size.
C30_TotalLength ==
  /\ [](lastOp = "tick" =>
          /\ Total25(canvasPath) = 32 * tickProgress
          /\ tickProgress = 100 => Total25(canvasPath) = 25 * (4 * 32))
  /\ [][(lastOp = "tick" /\ lastOp' = "tick"
         /\ tickProgress' = tickProgress + 1) =>
          Total25(canvasPath') = Total25(canvasPath) + 32]_vars

C30_Witness ==
  /\ lastOp = "tick"
  /\ tickProgress = 63
  /\ Total25(canvasPath) = 2016

\* no tick has run yet
NoTickYet == tickProgress = -1

\* C31 as stated: the favicon target and the contents of the drawing
\* surface are written only by the tick handler; the favicon keeps its
\* original value until the first tick after a trigger, and no tick occurs
\* before the first trigger.
C31_OnlyTickWrites ==
  /\ [][lastOp' # "tick" =>
          (faviconHref' = faviconHref /\ canvasPath' = canvasPath)]_vars
  /\ [](NoTickYet => faviconHref = OriginalIcon)
  /\ [](nextTimerId = 1 => NoTickYet)

\* C31 (amended): the favicon target is written only by the tick handler
\* and the drawing surface is drawn on only by the tick handler; the
\* trigger handler changes neither, and init leaves the favicon target
\* unchanged but, when it sizes the canvas, clears the surface.  The
\* favicon keeps its original value until the first tick after a trigger,
\* and no tick occurs before the first trigger.
C31_OnlyTickDraws ==
  /\ [][lastOp' # "tick" =>
          /\ faviconHref' = faviconHref
          /\ \/ canvasPath' = canvasPath
             \/ /\ lastOp' = "init"
                /\ AllFound
                /\ canvasPath' = << >>
          /\ lastOp' = "trigger" => canvasPath' = canvasPath]_vars
  /\ [][lastOp' = "tick" =>
          (nextTimerId > 1 /\ faviconHref' # OriginalIcon)]_vars
  /\ [](NoTickYet => (faviconHref = OriginalIcon /\ canvasPath = << >>))
  /\ [](nextTimerId = 1 => (NoTickYet /\ timers = {}))

\* init has cleared the surface a tick drew on; the favicon keeps the frame
C31_Witness ==
  /\ lastOp = "init"
  /\ ~NoTickYet
  /\ canvasPath = << >>
  /\ faviconHref = IdealIcon(tickProgress)
  /\ tickProgress >= 1

\* C32: the frame a tick publishes is a function of the progress value
\* alone: every tick with progress p, in whichever run, by whichever timer
\* and over whatever was drawn before, leaves the surface and the favicon
\* at the one frame of p; a tick with the progress of the tick before it
\* publishes the identical frame again.
C32_FrameOfProgressAlone ==
  /\ [](lastOp = "tick" =>
          \E p \in 0..100 :
             /\ p = tickProgress
             /\ canvasPath = IdealTable[p]
             /\ faviconHref = IdealIcon(p))
  /\ [][(lastOp' = "tick" /\ animationProgress = tickProgress) =>
          (faviconHref' = faviconHref /\ tickProgress' = tickProgress)]_vars

\* the first tick of a second run, started while the first run's timer is
\* still firing and after other frames were drawn
C32_Witness ==
  /\ lastOp = "tick"
  /\ tickProgress = 0
  /\ ticksSinceTrigger = 1
  /\ nextTimerId = 3
  /\ Cardinality(timers) = 2
  /\ faviconHref = IdealIcon(0)

\* C33: repeated initialisation is idempotent for the listener: after any
\* number of successful init calls the button's listener list holds the
\* handler exactly once, an init after a successful one leaves the list as
\* it is, and one mouseenter event starts exactly one timer.
C33_OneListener ==
  /\ [](/\ Len(listeners) <= 1
        /\ initReturn = "true" => listeners = <<"handleButtonHover">>)
  /\ [][(lastOp' = "init" /\ initReturn = "true") =>
          (initReturn' = "true" /\ listeners' = listeners)]_vars
  /\ [][lastOp' = "trigger" =>
          /\ Len(listeners) = 1
          /\ nextTimerId' = nextTimerId + 1
          /\ Cardinality(timers' \ timers) = 1]_vars

\* init has succeeded again on a page where a run was already started
C33_Witness ==
  /\ lastOp = "init"
  /\ initReturn = "true"
  /\ nextTimerId > 1
  /\ Len(listeners) = 1

====
